---- MODULE Spec2Model ----
(***************************************************************************)
(* smb2fs: the SMB2 file system handler (src/src/main.c) and its pointer   *)
(* handle registry (src/src/marshalling.h).                                *)
(*                                                                         *)
(* The handler is single threaded: the host issues one file system request *)
(* at a time and blocks until it returns.  The model follows one request   *)
(* through its remote calls; a step is everything the handler does between *)
(* two points at which the outside world answers (a remote call of the     *)
(* protocol client, a reconnect prompt, a session establishment).          *)
(***************************************************************************)
EXTENDS Integers, Sequences, FiniteSets, TLC

(***************************************************************************)
(* Bounds of the model.                                                    *)
(***************************************************************************)
\* Session establishments explored by Spec.
MaxIncarnation == 3
\* Session establishments explored by SpecWrap (past the incarnation field).
WrapIncarnation == 1027
\* fuse_file_info structures the host holds in SpecRegistry and SpecWrap
\* (Spec: one).
NumFi == 2

(***************************************************************************)
(* Program constants.                                                      *)
(***************************************************************************)
GROWSIZE == 1024
INCARNATION_BITS == 10
INDEX_BITS == 22
MAX_INDEX == (2 ^ INDEX_BITS) - 1

\* errno values, negated when returned; EACCES stands for the protocol
\* outcomes a remote call reports as rc < -1
ENOENT == 2
EIO == 5
ENOMEM == 12
EACCES == 13
ENODEV == 19
EINVAL == 22
EROFS == 30
ENOTEMPTY == 66

\* rc of a remote call that failed in the transport
TRANSPORT_FAULT == -1
\* NT status 0xC0000120 as the int the _r2 calls report
SMB2_STATUS_CANCELLED == -1073741536
\* NT status 0xC0000022 (access denied) as an int: a protocol outcome of the _r2 calls
STATUS_ACCESS_DENIED == -1073741790

\* the null resource reference
NULL == [ctx |-> 0, n |-> 0, path |-> ""]
\* fsd == NULL
NULLFSD == [null |-> TRUE]

(***************************************************************************)
(* Handles: the 32-bit word (incarnation << INDEX_BITS) | (index + 1).     *)
(* The word is held as its two's-complement value, so that all 32 bits fit *)
(* TLC's integers; the shift drops the bits of the incarnation             *)
(* above INCARNATION_BITS.                                                 *)
(***************************************************************************)
\* Variant: a handle that carries no incarnation.
IncarnationField_None(incarnation) == 0

IncarnationField(incarnation) == incarnation % (2 ^ INCARNATION_BITS)

\* Variant: the index goes into the handle as it is.
MakeHandle_NoBias(incarnation, index) ==
    LET hi == IncarnationField(incarnation)
        signed == IF hi >= 2 ^ (INCARNATION_BITS - 1)
                  THEN hi - 2 ^ INCARNATION_BITS ELSE hi
    IN  signed * (2 ^ INDEX_BITS) + (index % (2 ^ INDEX_BITS))

MakeHandle(incarnation, index) ==
    LET hi == IncarnationField(incarnation)
        signed == IF hi >= 2 ^ (INCARNATION_BITS - 1)
                  THEN hi - 2 ^ INCARNATION_BITS ELSE hi
    IN  signed * (2 ^ INDEX_BITS) + ((index + 1) % (2 ^ INDEX_BITS))

HandleIncarnation(handle) == (handle \div (2 ^ INDEX_BITS)) % (2 ^ INCARNATION_BITS)

\* Variant: every handle decodes to slot 0.
HandleIndex_Zero(handle) == 0

HandleIndex(handle) == (handle % (2 ^ INDEX_BITS)) - 1

(***************************************************************************)
(* The pointer handle registry.  pointers[i + 1] is slot i; freeHead is    *)
(* the list of free indices, head first.                                   *)
(***************************************************************************)
AllocateNewRegistry(incarnation) ==
    [pointers |-> <<>>, size |-> 0, capacity |-> 0,
     incarnation |-> incarnation, freeHead |-> <<>>]

\* Variant: the look-up goes by the index alone.
HandleToPointer_IndexOnly(registry, handle) ==
    LET index == HandleIndex(handle)
    IN  IF index >= 0 /\ index < registry.size
        THEN registry.pointers[index + 1]
        ELSE NULL

HandleToPointer(registry, handle) ==
    LET index == HandleIndex(handle)
    IN  IF /\ HandleIncarnation(handle) = IncarnationField(registry.incarnation)
           /\ index >= 0
           /\ index < registry.size
        THEN registry.pointers[index + 1]
        ELSE NULL

\* Variant: a full table grows by the one slot it needs.
AllocateHandleForPointer_GrowByOne(registry, ptr, nomem) ==
    IF registry.freeHead # <<>>
    THEN LET index == Head(registry.freeHead)
         IN  [registry |-> [registry EXCEPT !.freeHead = Tail(@),
                                            !.pointers[index + 1] = ptr],
              handle |-> MakeHandle(registry.incarnation, index)]
    ELSE IF registry.size + 1 > MAX_INDEX
              \/ (registry.size = registry.capacity /\ nomem)
    THEN [registry |-> registry, handle |-> 0]
    ELSE [registry |-> [registry EXCEPT
                           !.capacity = IF registry.size = @ THEN @ + 1 ELSE @,
                           !.size = @ + 1,
                           !.pointers = Append(@, ptr)],
          handle |-> MakeHandle(registry.incarnation, registry.size)]

\* Variant: the free index taken is the one released first.
AllocateHandleForPointer_Oldest(registry, ptr, nomem) ==
    IF registry.freeHead # <<>>
    THEN LET last == Len(registry.freeHead)
             index == registry.freeHead[last]
         IN  [registry |-> [registry EXCEPT !.freeHead = SubSeq(@, 1, last - 1),
                                            !.pointers[index + 1] = ptr],
              handle |-> MakeHandle(registry.incarnation, index)]
    ELSE IF registry.size + 1 > MAX_INDEX
              \/ (registry.size = registry.capacity /\ nomem)
    THEN [registry |-> registry, handle |-> 0]
    ELSE [registry |-> [registry EXCEPT
                           !.capacity = IF registry.size = @ THEN @ + GROWSIZE ELSE @,
                           !.size = @ + 1,
                           !.pointers = Append(@, ptr)],
          handle |-> MakeHandle(registry.incarnation, registry.size)]

\* The registry after AllocateHandleForPointer and the handle it returns
\* (0: the ceiling is exceeded, or memory cannot be obtained).
AllocateHandleForPointer(registry, ptr, nomem) ==
    IF registry.freeHead # <<>>
    THEN LET index == Head(registry.freeHead)
         IN  [registry |-> [registry EXCEPT !.freeHead = Tail(@),
                                            !.pointers[index + 1] = ptr],
              handle |-> MakeHandle(registry.incarnation, index)]
    ELSE IF registry.size + 1 > MAX_INDEX
              \/ (registry.size = registry.capacity /\ nomem)
    THEN [registry |-> registry, handle |-> 0]
    ELSE [registry |-> [registry EXCEPT
                           !.capacity = IF registry.size = @ THEN @ + GROWSIZE ELSE @,
                           !.size = @ + 1,
                           !.pointers = Append(@, ptr)],
          handle |-> MakeHandle(registry.incarnation, registry.size)]

\* Variant: the slot is emptied and its index pushed whether or not the
\* slot holds a pointer.
RemoveHandle_Unchecked(registry, handle) ==
    LET index == HandleIndex(handle)
    IN  IF /\ HandleIncarnation(handle) = IncarnationField(registry.incarnation)
           /\ index >= 0
           /\ index < registry.size
        THEN [registry EXCEPT !.pointers[index + 1] = NULL,
                              !.freeHead = <<index>> \o @]
        ELSE registry

RemoveHandle(registry, handle) ==
    IF HandleToPointer(registry, handle) = NULL
    THEN registry
    ELSE [registry EXCEPT !.pointers[HandleIndex(handle) + 1] = NULL,
                          !.freeHead = <<HandleIndex(handle)>> \o @]

(***************************************************************************)
(* State.                                                                  *)
(*   md               the mount arguments (smb2fs_mount_data.args) and the *)
(*                    sizes the server negotiates                          *)
(*   fsd              the session object, NULLFSD when there is none       *)
(*   phr_incarnation  the process-wide incarnation counter                 *)
(*   cfg_*            the two configuration globals                        *)
(*   registries       incarnations of the registries allocated, not freed  *)
(*   openRes          resources open in the current protocol context       *)
(*   files            the fuse_file_info structures the host holds, with   *)
(*                    the registry (issuer) and the resource (ref) each    *)
(*                    fh was allocated for                                 *)
(*   call             the request in progress: its position and locals     *)
(*   log              what the last step did, and what the request in      *)
(*                    progress has done so far                             *)
(*   mgr              the connection manager state the session is in       *)
(*   env              the surroundings of the run: the number of session   *)
(*                    establishments explored (cap), the values of the     *)
(*                    counter at which the server cannot be reached (down),*)
(*                    the ways an establishment can end (outcomes), the    *)
(*                    sizes the host asks for (sizes), the sizes and URL   *)
(*                    paths the mount arguments are drawn from (negotiated,*)
(*                    urlpaths) and the seconds a remote call of a         *)
(*                    transfer loop can take (ticks)                       *)
(***************************************************************************)
VARIABLES md, fsd, phr_incarnation, cfg_reconnect_req, cfg_handles_rcv,
          registries, openRes, files, call, log, mgr, env

vars == <<md, fsd, phr_incarnation, cfg_reconnect_req, cfg_handles_rcv,
          registries, openRes, files, call, log, mgr, env>>

\* The state as one value, for the operators that compute a step.
St == [md |-> md, fsd |-> fsd, phr_incarnation |-> phr_incarnation,
       cfg_reconnect_req |-> cfg_reconnect_req, cfg_handles_rcv |-> cfg_handles_rcv,
       registries |-> registries, openRes |-> openRes, files |-> files,
       call |-> call, log |-> log, mgr |-> mgr]

Apply(st) ==
    /\ md' = st.md
    /\ fsd' = st.fsd
    /\ phr_incarnation' = st.phr_incarnation
    /\ cfg_reconnect_req' = st.cfg_reconnect_req
    /\ cfg_handles_rcv' = st.cfg_handles_rcv
    /\ registries' = st.registries
    /\ openRes' = st.openRes
    /\ files' = st.files
    /\ call' = st.call
    /\ log' = st.log
    /\ mgr' = st.mgr
    /\ UNCHANGED env

\* Inputs of the model.
Paths == {"f"}
UrlPaths == {<<"sub">>}
NegotiatedSizes == {131072}
InitOutcomes == {"nomem", "fail", "refused", "badfd", "ok"}
\* rc of a remote call: success, a transport fault, a protocol outcome
RemoteRc == {0, TRANSPORT_FAULT, -EACCES}
\* r2 of smb2_open_r2 and smb2_opendir_r2
RemoteR2 == {0, TRANSPORT_FAULT, SMB2_STATUS_CANCELLED, STATUS_ACCESS_DENIED}

NoFile == [used |-> FALSE, fh |-> 0, path |-> "", dir |-> FALSE,
           issuer |-> 0, ref |-> NULL]

NoCall == [op |-> "", pc |-> "unmounted", fi |-> 0, path |-> "", cont |-> "",
           after |-> "", flags |-> "", smb2fh |-> NULL, rc |-> 0,
           size |-> 0, result |-> 0, chunk_size |-> 0, success_count |-> 0,
           service_counter |-> 0, bytes_since_service |-> 0, elapsed |-> 0]

NoLog == [op |-> "", returned |-> FALSE, ret |-> 0,
          cls |-> "none", code |-> 0, handler |-> FALSE, before |-> NULLFSD,
          last |-> "none", proto |-> 0, afterProto |-> FALSE, faults |-> FALSE,
          prompts |-> 0, inits |-> 0, declined |-> FALSE, enteredNull |-> FALSE,
          req |-> 0, delivered |-> 0, resumed |-> FALSE,
          torn |-> [rdonly |-> FALSE, rootdir |-> <<>>],
          looped |-> FALSE, unit |-> FALSE, units |-> 0, drained |-> FALSE,
          drains |-> 0, final |-> 0, late |-> FALSE, echoed |-> FALSE,
          failed |-> FALSE, streak |-> 0, grew |-> FALSE, remote |-> {},
          listing |-> "none", notempty |-> FALSE,
          api |-> "", handle |-> 0, ptr |-> NULL, freed |-> 0,
          exhausted |-> FALSE, password |-> 0,
          attempt |-> "none", tags |-> <<>>, order |-> <<>>, fh |-> 0,
          dirty |-> FALSE, spin |-> FALSE]

Sat(n) == IF n >= 2 THEN 2 ELSE n + 1

\* The log at the start of a step: nothing done in this step yet.
StepStart(st) ==
    [st EXCEPT !.log.returned = FALSE, !.log.cls = "none", !.log.code = 0,
               !.log.handler = FALSE, !.log.before = NULLFSD,
               !.log.unit = FALSE, !.log.drained = FALSE, !.log.late = FALSE,
               !.log.echoed = FALSE, !.log.failed = FALSE, !.log.grew = FALSE,
               !.log.streak = IF st.log.grew THEN 0 ELSE @,
               !.log.exhausted = FALSE, !.log.attempt = "none"]

\* service_counter, bytes_since_service and last_echo are static: a request
\* finds in them what the last read or write left (followed from request to
\* request where the surroundings ask for it).
NoState == [call |-> NoCall]

Statics(st) ==
    IF env.statics
    THEN [service_counter |-> st.call.service_counter,
          bytes_since_service |-> st.call.bytes_since_service,
          elapsed |-> st.call.elapsed]
    ELSE [service_counter |-> 0, bytes_since_service |-> 0, elapsed |-> 0]

\* The log at the start of a request.
CallStart(st, op, fi, path, size) ==
    [st EXCEPT !.log = [NoLog EXCEPT !.op = op, !.enteredNull = (st.fsd = NULLFSD),
                                     !.req = size, !.tags = st.log.tags,
                                     !.dirty = (Statics(st) # Statics(NoState))],
               !.call = [NoCall EXCEPT
                           !.op = op, !.pc = "enter", !.fi = fi,
                           !.path = path, !.size = size,
                           !.service_counter = Statics(st).service_counter,
                           !.bytes_since_service = Statics(st).bytes_since_service,
                           !.elapsed = Statics(st).elapsed]]

\* The request returns v to the host.
Return(st, v) ==
    [st EXCEPT !.call.pc = "idle", !.log.returned = TRUE, !.log.ret = v]

\* A remote call of the protocol client was issued and ended in class cls.
Remote(st, cls, code) ==
    [st EXCEPT !.log.cls = cls, !.log.code = code, !.log.last = cls,
               !.log.remote = @ \cup {st.call.pc},
               !.log.afterProto = (@ \/ st.log.proto # 0),
               !.log.proto = IF cls = "proto" THEN code ELSE @,
               !.log.faults = (@ \/ cls = "fault"),
               !.log.before = IF cls = "proto" THEN st.fsd ELSE @]

(***************************************************************************)
(* The subtree restriction: the URL path, split at '/', folded segment by  *)
(* segment into pathbuf (the sequence of the names appended so far).       *)
(***************************************************************************)
NormalizeStep(pathbuf, namebuf) ==
    IF namebuf = "" \/ namebuf = "." THEN pathbuf
    ELSE IF namebuf = ".." /\ pathbuf # <<>>
    THEN SubSeq(pathbuf, 1, Len(pathbuf) - 1)
    ELSE Append(pathbuf, namebuf)

RECURSIVE Normalize(_, _)
Normalize(pathbuf, segments) ==
    IF segments = <<>> THEN pathbuf
    ELSE Normalize(NormalizeStep(pathbuf, Head(segments)), Tail(segments))

(***************************************************************************)
(* Session establishment and teardown.                                     *)
(***************************************************************************)
\* smb2fs_init by the way it ends:
\*   "nomem"  calloc of fsd failed: NULL, nothing else done
\*   "fail"   a failure after the registry was requested and before the
\*            password is looked for (no registry, no context, bad URL):
\*            what was built is destroyed, NULL
\*   "refused" a failure after that (no password given, connect failed):
\*            what was built is destroyed, NULL
\*   "badfd"  connected, but the socket fd is one of 0..2: returns -ENODEV
\*            cast to a pointer, with fsd left allocated and not connected
\*   "ok"     fsd
\* The result is the state after it and whether the value returned is non-NULL.
\* Variant: the counter stays where it is.
NextIncarnation_Same(incarnation) == incarnation

\* phr_incarnation++
NextIncarnation(incarnation) == incarnation + 1

smb2fs_init(st, outcome) ==
    LET cfg == [st EXCEPT
                  !.cfg_reconnect_req = (@ \/ st.md.reconnect_req),
                  !.cfg_handles_rcv = (@ /\ ~st.md.no_handles_rcv)]
        incarnation == st.phr_incarnation
        built == [smb2 |-> incarnation,
                  phr |-> AllocateNewRegistry(incarnation),
                  rdonly |-> st.md.readonly,
                  connected |-> FALSE,
                  rootdir |-> <<>>]
        \* AllocateNewRegistry(phr_incarnation++); the tag is logged also
        \* when the registry is freed again before the attempt ends.
        counted == [cfg EXCEPT !.phr_incarnation = NextIncarnation(@),
                               !.log.inits = Sat(@),
                               !.log.attempt = "registry",
                               !.log.tags = Append(@, incarnation)]
        \* password == NULL && !md->args[ARG_NOPASSWORDREQ]: request_password
        asked == [counted EXCEPT
                    !.log.password = IF st.md.needpw THEN Sat(@) ELSE @]
    IN  CASE outcome = "nomem" ->
               [st |-> [cfg EXCEPT !.fsd = NULLFSD, !.log.inits = Sat(@),
                                   !.log.attempt = "early"],
                ret |-> FALSE]
          [] outcome = "fail" ->
               [st |-> [counted EXCEPT !.fsd = NULLFSD], ret |-> FALSE]
          [] outcome = "refused" ->
               [st |-> [asked EXCEPT !.fsd = NULLFSD], ret |-> FALSE]
          [] outcome = "badfd" ->
               [st |-> [asked EXCEPT !.fsd = built,
                                       !.registries = @ \cup {incarnation},
                                       !.mgr = "Connected"],
                ret |-> TRUE]
          [] OTHER ->
               [st |-> [asked EXCEPT
                          !.fsd = [built EXCEPT
                                     !.connected = TRUE,
                                     !.rootdir = Normalize(<<>>, st.md.urlpath)],
                          !.registries = @ \cup {incarnation},
                          !.mgr = "Connected"],
                ret |-> TRUE]

smb2fs_destroy(st) ==
    IF st.fsd = NULLFSD THEN st
    ELSE [st EXCEPT !.fsd = NULLFSD,
                    !.registries = @ \ {st.fsd.phr.incarnation},
                    !.openRes = {}]

\* handle_connection_fault up to its reconnect loop: the context, the root
\* directory and fsd are freed; fsd->phr is not.
TearDown(st) ==
    [st EXCEPT !.fsd = NULLFSD, !.openRes = {}, !.log.handler = TRUE,
               !.log.torn = [rdonly |-> st.fsd.rdonly, rootdir |-> st.fsd.rootdir],
               !.mgr = "Faulted"]

(***************************************************************************)
(* The block every operation but statfs starts with:                       *)
(*   if (fsd == NULL) {                                                    *)
(*     if (cfg_reconnect_req) {                                            *)
(*       if (!(request_reconnect(last_server) && smb2fs_init(NULL)))       *)
(*         return -ENODEV;                                                 *)
(*     } else if (!smb2fs_init(NULL)) return -ENODEV;                      *)
(*   }                                                                     *)
(* answer is what request_reconnect returns, outcome how smb2fs_init ends. *)
(***************************************************************************)
Prompted(st, answer) ==
    [st EXCEPT !.log.prompts = Sat(@),
               !.log.declined = (@ \/ ~answer),
               !.mgr = IF answer THEN @ ELSE "PermanentlyFailed"]

\* Variant: without a session the block gives up at once.
EnsureSession_GiveUp(st, answer, outcome) ==
    IF st.fsd # NULLFSD THEN [st |-> st, ret |-> TRUE]
    ELSE [st |-> st, ret |-> FALSE]

EnsureSession(st, answer, outcome) ==
    IF st.fsd # NULLFSD THEN [st |-> st, ret |-> TRUE]
    ELSE IF st.cfg_reconnect_req
    THEN IF answer THEN smb2fs_init(Prompted(st, TRUE), outcome)
         ELSE [st |-> Prompted(st, FALSE), ret |-> FALSE]
    ELSE smb2fs_init(st, outcome)

\* Whether the block would establish a session.
Establishes(answer) ==
    fsd = NULLFSD /\ (cfg_reconnect_req => answer)

\* The ways a session establishment can end in the current surroundings.
CanEstablish(outcome) ==
    /\ phr_incarnation < env.cap
    /\ outcome \in env.outcomes
    /\ phr_incarnation \in env.down => outcome \in {"nomem", "fail"}

(***************************************************************************)
(* smb2fs_open from its open loop on, as the operation and as the re-open  *)
(* of read, write and ftruncate.                                           *)
(***************************************************************************)
FullPath(st, path) == st.fsd.rootdir \o <<path>>

Referenced(st) ==
    IF st.fsd = NULLFSD THEN {}
    ELSE {st.fsd.phr.pointers[i] : i \in 1..st.fsd.phr.size} \ {NULL}

\* Resources open in the context that no slot of the registry refers to.
Leaked(st) == st.openRes \ Referenced(st)

\* The resource a remote open returns: a pointer not in use.
FreshRef(st, path) ==
    [ctx |-> st.fsd.smb2,
     n |-> CHOOSE n \in 1..(Cardinality(st.openRes) + 1) :
             \A r \in st.openRes : r.n # n,
     path |-> path]

\* Position after smb2fs_open: the transfer set-up of read and write, the
\* call of ftruncate.
EnterOpen(st, after) ==
    [st EXCEPT !.call.pc = "open", !.call.after = after,
               !.call.flags = IF st.fsd.rdonly THEN "O_RDONLY" ELSE "O_RDWR"]

(***************************************************************************)
(* read, write and ftruncate from the handle look-up on.                   *)
(***************************************************************************)
INITIAL_CHUNK == 65536
SUCCESS_THRESHOLD == 4
SERVICE_UNITS == 4
SERVICE_BYTES == 262144
ECHO_INTERVAL == 20

Min(a, b) == IF a < b THEN a ELSE b

\* The seconds since last_echo, as far as the model counts them.
MaxElapsed == 30

\* dt seconds pass while a remote call of the transfer loop is under way.
Elapse(st, dt) == [st EXCEPT !.call.elapsed = Min(@ + dt, MaxElapsed)]

\* The drain after the transfer loop.
FinalDrain(st) == [st EXCEPT !.log.final = @ + 1]

\* The start of the do-loop of read and write: look the handle up, seek,
\* reset the transfer state.  write refuses a socket fd of 0..2, which is
\* what a session established the "badfd" way has.
\* Variant: the batching counters and the echo time are left as they are.
TransferTop_KeepCounters(st) ==
    LET smb2fh == HandleToPointer(st.fsd.phr, st.files[st.call.fi].fh)
    IN  IF smb2fh = NULL THEN Return(st, -EINVAL)
        ELSE IF st.call.op = "write" /\ ~st.fsd.connected THEN Return(st, -ENODEV)
        ELSE [st EXCEPT !.call.pc = "io",
                        !.call.smb2fh = smb2fh,
                        !.call.result = 0,
                        !.call.chunk_size = IF st.call.op = "write"
                                            THEN Min(INITIAL_CHUNK, st.md.max_write)
                                            ELSE 0,
                        !.call.success_count = 0]

TransferTop(st) ==
    LET smb2fh == HandleToPointer(st.fsd.phr, st.files[st.call.fi].fh)
    IN  IF smb2fh = NULL THEN Return(st, -EINVAL)
        ELSE IF st.call.op = "write" /\ ~st.fsd.connected THEN Return(st, -ENODEV)
        ELSE [st EXCEPT !.call.pc = "io",
                        !.call.smb2fh = smb2fh,
                        !.call.result = 0,
                        !.call.chunk_size = IF st.call.op = "write"
                                            THEN Min(INITIAL_CHUNK, st.md.max_write)
                                            ELSE 0,
                        !.call.success_count = 0,
                        !.call.service_counter = 0,
                        !.call.bytes_since_service = 0,
                        !.call.elapsed = 0]

\* What follows the session block (and the re-open in it) in read, write
\* and ftruncate.
StreamTop(st) ==
    IF st.call.op # "read" /\ st.fsd.rdonly THEN Return(st, -EROFS)
    ELSE IF st.call.op = "ftruncate" THEN [st EXCEPT !.call.pc = "ftrunc"]
    ELSE TransferTop(st)

\* After the re-open inside the transfer loop the loop body falls through to
\*   result += rc; buffer_ref += rc; size -= rc;
\* with rc the negative code of the failed call, and goes round again
\* with the smb2fh it looked up before the fault.
TransferResume(st) ==
    [st EXCEPT !.call.pc = "io",
               !.log.resumed = TRUE,
               !.call.result = @ + st.call.rc,
               !.call.size = @ - st.call.rc]

\* smb2fs_open returns v, to the host or to the operation that re-opens.
OpenReturn(st, v) ==
    IF st.call.op = "open" THEN Return(st, v)
    ELSE IF v < 0 THEN Return(st, -EIO)
    ELSE IF st.call.after = "top" THEN StreamTop(st)
    ELSE IF st.call.op = "ftruncate" THEN [st EXCEPT !.call.pc = "ftrunc"]
    ELSE TransferResume(st)

\* read, write and ftruncate after handle_connection_fault returned TRUE.
Recover(st) ==
    IF st.cfg_handles_rcv THEN EnterOpen(st, "resume") ELSE Return(st, -EIO)

(***************************************************************************)
(* handle_connection_fault, called at position cont of an operation.       *)
(***************************************************************************)
\* It returned FALSE: every caller returns -ENODEV.
FaultFalse(st, cont) ==
    IF cont = "open" THEN OpenReturn(st, -ENODEV) ELSE Return(st, -ENODEV)

\* It returned TRUE: the caller goes round its loop again.
FaultTrue(st, cont) ==
    IF cont = "recover" THEN Recover(st) ELSE [st EXCEPT !.call.pc = cont]

\* Up to the first request_reconnect.
handle_connection_fault(st, cont) ==
    LET t == TearDown(st)
    IN  IF ~t.cfg_reconnect_req THEN FaultFalse(t, cont)
        ELSE [t EXCEPT !.call.pc = "reconnect", !.call.cont = cont]

\* One round of  while (request_reconnect(last_server)) if (smb2fs_init(NULL)) return TRUE;
ReconnectRound(st, answer, outcome) ==
    LET p == Prompted(st, answer)
        r == smb2fs_init(p, outcome)
    IN  IF ~answer THEN FaultFalse(p, st.call.cont)
        ELSE IF r.ret THEN FaultTrue(r.st, st.call.cont)
        ELSE r.st

(***************************************************************************)
(* The remote calls and what each operation does with their results.       *)
(***************************************************************************)
Class(rc) ==
    IF rc >= 0 THEN "ok" ELSE IF rc = TRANSPORT_FAULT THEN "fault" ELSE "proto"

ClassR2(r2) ==
    IF r2 = 0 THEN "ok"
    ELSE IF r2 = TRANSPORT_FAULT \/ r2 = SMB2_STATUS_CANCELLED THEN "fault"
    ELSE "proto"

\* do { rc = smb2_xxx(...); if (rc < -1) return rc;
\*      else if (rc < 0) { if (!handle_connection_fault()) return -ENODEV; }
\* } while (rc < 0); return 0;
RetryLoop(st, rc) ==
    LET s == Remote(st, Class(rc), rc)
    IN  IF rc < -1 THEN Return(s, rc)
        ELSE IF rc < 0 THEN handle_connection_fault(s, "remote")
        ELSE Return(s, 0)

\* rc = smb2_utimens(...); if (rc < 0) return rc; return 0;
UtimensCall(st, rc) ==
    LET s == Remote(st, Class(rc), rc)
    IN  IF rc < 0 THEN Return(s, rc) ELSE Return(s, 0)

\* Variant: the loop does not look the handle up.
FgetattrLoop_NoLookup(st, rc) == RetryLoop(st, rc)

\* The loop of fgetattr looks the handle up before each call.
FgetattrLoop(st, rc) ==
    IF HandleToPointer(st.fsd.phr, st.files[st.call.fi].fh) = NULL
    THEN Return(st, -EINVAL)
    ELSE RetryLoop(st, rc)

\* Variant: a failed allocation ends the session.
StoreHandle_Destroys(st, ptr, nomem, dir) ==
    LET a == AllocateHandleForPointer(st.fsd.phr, ptr, nomem)
        fi == st.call.fi
        s == [st EXCEPT !.log.exhausted = (a.handle = 0)]
    IN  [st |-> IF a.handle = 0 THEN smb2fs_destroy(s)
                ELSE [s EXCEPT
                        !.fsd.phr = a.registry,
                        !.openRes = @ \cup {ptr},
                        !.files[fi] =
                            [used |-> TRUE, fh |-> a.handle, path |-> st.call.path,
                             dir |-> dir, issuer |-> st.fsd.phr.incarnation,
                             ref |-> ptr]],
         ret |-> IF a.handle = 0 THEN -ENOMEM ELSE 0]

\* Variant: fi->fh is set, but the registry does not keep the pointer.
StoreHandle_NoInsert(st, ptr, nomem, dir) ==
    LET a == AllocateHandleForPointer(st.fsd.phr, ptr, nomem)
        fi == st.call.fi
    IN  [st |-> [st EXCEPT
                   !.openRes = @ \cup {ptr},
                   !.log.exhausted = (a.handle = 0),
                   !.files[fi] =
                       IF a.handle = 0 THEN [@ EXCEPT !.fh = 0]
                       ELSE [used |-> TRUE, fh |-> a.handle, path |-> st.call.path,
                             dir |-> dir, issuer |-> st.fsd.phr.incarnation,
                             ref |-> ptr]],
         ret |-> IF a.handle = 0 THEN -ENOMEM ELSE 0]

\* fi->fh = AllocateHandleForPointer(fsd->phr, ptr); if (fi->fh == 0) -ENOMEM
\* The result is the state and the value the operation returns.
StoreHandle(st, ptr, nomem, dir) ==
    LET a == AllocateHandleForPointer(st.fsd.phr, ptr, nomem)
        fi == st.call.fi
    IN  [st |-> [st EXCEPT
                   !.fsd.phr = a.registry,
                   !.openRes = @ \cup {ptr},
                   !.log.exhausted = (a.handle = 0),
                   !.files[fi] =
                       IF a.handle = 0 THEN [@ EXCEPT !.fh = 0]
                       ELSE [used |-> TRUE, fh |-> a.handle, path |-> st.call.path,
                             dir |-> dir, issuer |-> st.fsd.phr.incarnation,
                             ref |-> ptr]],
         ret |-> IF a.handle = 0 THEN -ENOMEM ELSE 0]

\* Variant: a rejected open is not tried again read-only.
OpenLoop_NoRetry(st, r2, nomem) ==
    LET s == Remote(st, ClassR2(r2), r2)
        h == StoreHandle(s, FreshRef(s, FullPath(s, s.call.path)), nomem, FALSE)
    IN  IF ClassR2(r2) = "fault" THEN handle_connection_fault(s, "open")
        ELSE IF r2 = 0 THEN OpenReturn(h.st, h.ret)
        ELSE OpenReturn(s, -ENOENT)

\* The open loop of smb2fs_open: read-write first, read-only when that is
\* rejected.
OpenLoop(st, r2, nomem) ==
    LET s == Remote(st, ClassR2(r2), r2)
        h == StoreHandle(s, FreshRef(s, FullPath(s, s.call.path)), nomem, FALSE)
    IN  IF ClassR2(r2) = "fault" THEN handle_connection_fault(s, "open")
        ELSE IF r2 = 0 THEN OpenReturn(h.st, h.ret)
        ELSE IF s.call.flags = "O_RDWR" THEN [s EXCEPT !.call.flags = "O_RDONLY"]
        ELSE OpenReturn(s, -ENOENT)

\* The open loop of smb2fs_create; a protocol outcome ends in  return -1; // r2
CreateLoop(st, r2, nomem) ==
    LET s == Remote(st, ClassR2(r2), r2)
        h == StoreHandle(s, FreshRef(s, FullPath(s, s.call.path)), nomem, FALSE)
    IN  IF ClassR2(r2) = "fault" THEN handle_connection_fault(s, "create")
        ELSE IF r2 = 0 THEN Return(h.st, h.ret)
        ELSE Return(s, -1)

OpendirLoop(st, r2, nomem) ==
    LET s == Remote(st, ClassR2(r2), r2)
        h == StoreHandle(s, FreshRef(s, FullPath(s, s.call.path)), nomem, TRUE)
    IN  IF ClassR2(r2) = "fault" THEN handle_connection_fault(s, "opendir")
        ELSE IF r2 = 0 THEN Return(h.st, h.ret)
        ELSE Return(s, -ENOENT)

\* release and releasedir after the session block: close, RemoveHandle,
\* fi->fh = 0.  The host drops its fuse_file_info whatever is returned.
\* log.order: the close and the RemoveHandle in the order they are made, each
\* with what the handle resolves to at that moment; log.fh: fi->fh as the
\* handler leaves it.
\* Variant: the handle is removed before the resource is closed.
ReleaseBody_RemoveFirst(st) ==
    LET fi == st.call.fi
        handle == st.files[fi].fh
        ptr == HandleToPointer(st.fsd.phr, handle)
        refer == [st EXCEPT !.log.handle = handle, !.log.ptr = ptr,
                            !.log.fh = handle]
        removed == [refer EXCEPT
                      !.fsd.phr = RemoveHandle(@, handle),
                      !.log.order = Append(@, <<"remove", HandleToPointer(refer.fsd.phr, handle)>>)]
        closed == [Remote(removed, "ok", 0) EXCEPT
                     !.openRes = @ \ {ptr},
                     !.log.order = Append(@, <<"close", HandleToPointer(removed.fsd.phr, handle)>>)]
    IN  IF ptr = NULL THEN Return([refer EXCEPT !.files[fi] = NoFile], -EINVAL)
        ELSE Return([closed EXCEPT !.log.fh = 0, !.files[fi] = NoFile], 0)

ReleaseBody(st) ==
    LET fi == st.call.fi
        handle == st.files[fi].fh
        ptr == HandleToPointer(st.fsd.phr, handle)
        refer == [st EXCEPT !.log.handle = handle, !.log.ptr = ptr,
                            !.log.fh = handle]
        closed == [Remote(refer, "ok", 0) EXCEPT
                     !.openRes = @ \ {ptr},
                     !.log.order = Append(@, <<"close", HandleToPointer(refer.fsd.phr, handle)>>)]
        removed == [closed EXCEPT
                      !.fsd.phr = RemoveHandle(@, handle),
                      !.log.order = Append(@, <<"remove", HandleToPointer(closed.fsd.phr, handle)>>)]
    IN  IF ptr = NULL THEN Return([refer EXCEPT !.files[fi] = NoFile], -EINVAL)
        ELSE Return([removed EXCEPT !.log.fh = 0, !.files[fi] = NoFile], 0)

\* readdir after the session block: the entries come from the listing the
\* open fetched.
ReaddirBody(st) ==
    IF HandleToPointer(st.fsd.phr, st.files[st.call.fi].fh) = NULL
    THEN Return(st, -EINVAL)
    ELSE Return(st, 0)

\* The open loop of smb2fs_rmdir with the listing and the closedir that
\* follow it; notempty: the listing has a name other than "." and "..".
RmdirOpenLoop_NoClosedir(st, r2, notempty) ==
    LET s == Remote(st, ClassR2(r2), r2)
        smb2dir == FreshRef(s, FullPath(s, s.call.path))
        opened == [s EXCEPT !.openRes = @ \cup {smb2dir}, !.log.listing = "open",
                            !.log.notempty = notempty]
        closed == [opened EXCEPT !.openRes = @ \ {smb2dir},
                                 !.log.listing = "closed"]
    IN  IF ClassR2(r2) = "fault" THEN handle_connection_fault(s, "rmdir")
        ELSE IF r2 # 0 THEN Return(s, -ENOENT)
        ELSE IF notempty THEN Return(opened, -ENOTEMPTY)
        ELSE [closed EXCEPT !.call.pc = "remote"]

RmdirOpenLoop(st, r2, notempty) ==
    LET s == Remote(st, ClassR2(r2), r2)
        smb2dir == FreshRef(s, FullPath(s, s.call.path))
        opened == [s EXCEPT !.openRes = @ \cup {smb2dir}, !.log.listing = "open",
                            !.log.notempty = notempty]
        closed == [opened EXCEPT !.openRes = @ \ {smb2dir},
                                 !.log.listing = "closed"]
    IN  IF ClassR2(r2) = "fault" THEN handle_connection_fault(s, "rmdir")
        ELSE IF r2 # 0 THEN Return(s, -ENOENT)
        ELSE IF notempty THEN Return(closed, -ENOTEMPTY)
        ELSE [closed EXCEPT !.call.pc = "remote"]

\* The ftruncate loop, which looks the handle up before each call.
FtruncateLoop(st, rc) ==
    LET s == Remote(st, Class(rc), rc)
    IN  IF HandleToPointer(st.fsd.phr, st.files[st.call.fi].fh) = NULL
        THEN Return(st, -EINVAL)
        ELSE IF rc < -1 THEN Return(s, rc)
        ELSE IF rc < 0 THEN handle_connection_fault(s, "recover")
        ELSE Return(s, 0)

\* The batching after a successful unit of rc bytes: the drain when a
\* threshold is reached and, inside it, the keep-alive when it is due.
Serviced_UnitsOnly(st, rc) ==
    LET units == st.call.service_counter + 1
        bytes == st.call.bytes_since_service + rc
        late == st.call.elapsed >= ECHO_INTERVAL
        u == [st EXCEPT !.log.unit = TRUE, !.log.units = @ + 1, !.log.late = late]
    IN  IF units >= SERVICE_UNITS
        THEN [u EXCEPT !.call.service_counter = 0,
                       !.call.bytes_since_service = 0,
                       !.call.elapsed = IF late THEN 0 ELSE @,
                       !.log.drained = TRUE, !.log.drains = @ + 1,
                       !.log.echoed = late]
        ELSE [u EXCEPT !.call.service_counter = units,
                       !.call.bytes_since_service = bytes]

Serviced(st, rc) ==
    LET units == st.call.service_counter + 1
        bytes == st.call.bytes_since_service + rc
        late == st.call.elapsed >= ECHO_INTERVAL
        u == [st EXCEPT !.log.unit = TRUE, !.log.units = @ + 1, !.log.late = late]
    IN  IF units >= SERVICE_UNITS \/ bytes >= SERVICE_BYTES
        THEN [u EXCEPT !.call.service_counter = 0,
                       !.call.bytes_since_service = 0,
                       !.call.elapsed = IF late THEN 0 ELSE @,
                       !.log.drained = TRUE, !.log.drains = @ + 1,
                       !.log.echoed = late]
        ELSE [u EXCEPT !.call.service_counter = units,
                       !.call.bytes_since_service = bytes]

\* The chunk size and success counter after a successful write.
Grown(c, max_write_size) ==
    IF c.success_count + 1 >= SUCCESS_THRESHOLD
    THEN [c EXCEPT !.chunk_size = Min(@ * 2, max_write_size), !.success_count = 0]
    ELSE [c EXCEPT !.success_count = @ + 1]

\* The end of a pass of the transfer loop: result += rc; size -= rc.
Advance(st, c, rc) ==
    LET d == [c EXCEPT !.result = @ + rc, !.size = @ - rc]
        s == [st EXCEPT !.call = d, !.log.delivered = @ + rc]
    IN  IF d.size > 0 THEN s ELSE Return(FinalDrain(s), d.result)

\* One pass of the read loop; rc is what smb2_read returns, after dt seconds.
ReadPass(st, rc, dt) ==
    LET s == Remote([Elapse(st, dt) EXCEPT !.log.looped = TRUE], Class(rc), rc)
    IN  IF rc = 0 THEN Return(FinalDrain(s), s.call.result)
        ELSE IF rc < -1 THEN Return(s, rc)
        ELSE IF rc < 0
        THEN handle_connection_fault([s EXCEPT !.call.rc = rc], "recover")
        ELSE LET v == Serviced(s, rc) IN Advance(v, v.call, rc)

\* One pass of the write loop; rc is what smb2_write returns, after dt
\* seconds.  log.spin changes at every pass in which nothing was written.
WritePass(st, rc, dt) ==
    LET s == Remote([Elapse(st, dt) EXCEPT !.log.looped = TRUE], Class(rc), rc)
    IN  IF rc < 0
        THEN handle_connection_fault([s EXCEPT !.call.rc = rc, !.log.failed = TRUE,
                                               !.log.streak = 0], "recover")
        ELSE IF rc > 0
        THEN LET v == Serviced(s, rc)
                 g == Grown(v.call, s.md.max_write)
             IN  Advance([v EXCEPT !.log.streak = @ + 1,
                                   !.log.grew = (g.success_count = 0)], g, rc)
        ELSE Advance([s EXCEPT !.log.spin = ~@], s.call, rc)

\* The count a pass asks for.
ReadCount(st) == Min(st.call.size, st.md.max_read)
WriteCount(st) == Min(st.call.size, st.call.chunk_size)

(***************************************************************************)
(* The operations.  Each is entered by the host when no request is in      *)
(* progress, with the arguments the host chooses, and takes one step per   *)
(* remote call.                                                            *)
(***************************************************************************)
ReqSizes == {131072}

\* The inputs of the session block that matter in the current state.
EnterInputs(answer, outcome) ==
    IF Establishes(answer) THEN CanEstablish(outcome)
    ELSE outcome = "ok" /\ (fsd # NULLFSD \/ ~cfg_reconnect_req => answer)

\* The session block of operation op; the body follows when it let the
\* operation go on.
Enter(op, fi, path, size, answer, outcome) ==
    LET e == EnsureSession(CallStart(StepStart(St), op, fi, path, size),
                           answer, outcome)
    IN  IF e.ret THEN e.st ELSE Return(e.st, -ENODEV)

Entered(st) == st.call.pc = "enter"

\* The operations that are one retry loop around one remote call.
LoopBody(st, mutating) ==
    IF ~Entered(st) THEN st
    ELSE IF mutating /\ st.fsd.rdonly THEN Return(st, -EROFS)
    ELSE [st EXCEPT !.call.pc = "remote"]

\* read, write and ftruncate re-open the file when the session block
\* established a session and handle recovery is on.
StreamBody(st) ==
    IF ~Entered(st) THEN st
    ELSE IF st.log.enteredNull /\ st.cfg_handles_rcv THEN EnterOpen(st, "top")
    ELSE StreamTop(st)

UsedFi == {i \in DOMAIN files : files[i].used}
FreeFi == {i \in DOMAIN files : ~files[i].used}
UsedFiles == {i \in UsedFi : ~files[i].dir}
UsedDirs == {i \in UsedFi : files[i].dir}

smb2fs_mount ==
    /\ call.pc = "unmounted"
    /\ \E outcome \in env.outcomes :
         LET r == smb2fs_init(CallStart(StepStart(St), "mount", 0, "", 0), outcome)
         IN  Apply(IF r.ret THEN Return(r.st, 0)
                   ELSE [r.st EXCEPT !.call.pc = "dead"])

smb2fs_unmount ==
    /\ call.pc = "idle"
    /\ Apply([smb2fs_destroy(CallStart(StepStart(St), "destroy", 0, "", 0))
                EXCEPT !.call.pc = "dead", !.mgr = "Disconnected"])

\* while (request_reconnect(last_server)) ... inside handle_connection_fault
reconnect_loop ==
    /\ call.pc = "reconnect"
    /\ \E answer \in BOOLEAN, outcome \in InitOutcomes :
         /\ IF answer THEN CanEstablish(outcome) ELSE outcome = "ok"
         /\ Apply(ReconnectRound(StepStart(St), answer, outcome))

smb2fs_statfs ==
    \/ /\ call.pc = "idle"
       /\ \E path \in Paths :
            LET s == CallStart(StepStart(St), "statfs", 0, path, 0)
            IN  Apply(IF fsd = NULLFSD THEN Return(s, -ENODEV)
                      ELSE [s EXCEPT !.call.pc = "remote"])
    \/ /\ call.pc = "remote" /\ call.op = "statfs"
       /\ \E rc \in RemoteRc : Apply(RetryLoop(StepStart(St), rc))

smb2fs_getattr ==
    \/ /\ call.pc = "idle"
       /\ \E path \in Paths, answer \in BOOLEAN, outcome \in InitOutcomes :
            /\ EnterInputs(answer, outcome)
            /\ Apply(LoopBody(Enter("getattr", 0, path, 0, answer, outcome), FALSE))
    \/ /\ call.pc = "remote" /\ call.op = "getattr"
       /\ \E rc \in RemoteRc : Apply(RetryLoop(StepStart(St), rc))

smb2fs_fgetattr ==
    \/ /\ call.pc = "idle"
       /\ \E fi \in UsedFiles, answer \in BOOLEAN, outcome \in InitOutcomes :
            /\ EnterInputs(answer, outcome)
            /\ Apply(LoopBody(Enter("fgetattr", fi, files[fi].path, 0, answer, outcome),
                              FALSE))
    \/ /\ call.pc = "remote" /\ call.op = "fgetattr"
       /\ \E rc \in RemoteRc : Apply(FgetattrLoop(StepStart(St), rc))

smb2fs_mkdir ==
    \/ /\ call.pc = "idle"
       /\ \E path \in Paths, answer \in BOOLEAN, outcome \in InitOutcomes :
            /\ EnterInputs(answer, outcome)
            /\ Apply(LoopBody(Enter("mkdir", 0, path, 0, answer, outcome), TRUE))
    \/ /\ call.pc = "remote" /\ call.op = "mkdir"
       /\ \E rc \in RemoteRc : Apply(RetryLoop(StepStart(St), rc))

smb2fs_truncate ==
    \/ /\ call.pc = "idle"
       /\ \E path \in Paths, answer \in BOOLEAN, outcome \in InitOutcomes :
            /\ EnterInputs(answer, outcome)
            /\ Apply(LoopBody(Enter("truncate", 0, path, 0, answer, outcome), TRUE))
    \/ /\ call.pc = "remote" /\ call.op = "truncate"
       /\ \E rc \in RemoteRc : Apply(RetryLoop(StepStart(St), rc))

smb2fs_readlink ==
    \/ /\ call.pc = "idle"
       /\ \E path \in Paths, answer \in BOOLEAN, outcome \in InitOutcomes :
            /\ EnterInputs(answer, outcome)
            /\ Apply(LoopBody(Enter("readlink", 0, path, 0, answer, outcome), FALSE))
    \/ /\ call.pc = "remote" /\ call.op = "readlink"
       /\ \E rc \in RemoteRc : Apply(RetryLoop(StepStart(St), rc))

smb2fs_rmdir ==
    \/ /\ call.pc = "idle"
       /\ \E path \in Paths, answer \in BOOLEAN, outcome \in InitOutcomes :
            /\ EnterInputs(answer, outcome)
            /\ LET s == LoopBody(Enter("rmdir", 0, path, 0, answer, outcome), TRUE)
               IN  Apply(IF s.call.pc = "remote" THEN [s EXCEPT !.call.pc = "rmdir"]
                         ELSE s)
    \/ /\ call.pc = "rmdir"
       /\ \E r2 \in RemoteR2, notempty \in BOOLEAN :
            /\ notempty => r2 = 0
            /\ Apply(RmdirOpenLoop(StepStart(St), r2, notempty))
    \/ /\ call.pc = "remote" /\ call.op = "rmdir"
       /\ \E rc \in RemoteRc : Apply(RetryLoop(StepStart(St), rc))

smb2fs_unlink ==
    \/ /\ call.pc = "idle"
       /\ \E path \in Paths, answer \in BOOLEAN, outcome \in InitOutcomes :
            /\ EnterInputs(answer, outcome)
            /\ Apply(LoopBody(Enter("unlink", 0, path, 0, answer, outcome), TRUE))
    \/ /\ call.pc = "remote" /\ call.op = "unlink"
       /\ \E rc \in RemoteRc : Apply(RetryLoop(StepStart(St), rc))

smb2fs_rename ==
    \/ /\ call.pc = "idle"
       /\ \E path \in Paths, answer \in BOOLEAN, outcome \in InitOutcomes :
            /\ EnterInputs(answer, outcome)
            /\ Apply(LoopBody(Enter("rename", 0, path, 0, answer, outcome), TRUE))
    \/ /\ call.pc = "remote" /\ call.op = "rename"
       /\ \E rc \in RemoteRc : Apply(RetryLoop(StepStart(St), rc))

smb2fs_utimens ==
    \/ /\ call.pc = "idle"
       /\ \E path \in Paths, answer \in BOOLEAN, outcome \in InitOutcomes :
            /\ EnterInputs(answer, outcome)
            /\ Apply(LoopBody(Enter("utimens", 0, path, 0, answer, outcome), TRUE))
    \/ /\ call.pc = "remote" /\ call.op = "utimens"
       /\ \E rc \in RemoteRc : Apply(UtimensCall(StepStart(St), rc))

smb2fs_opendir ==
    \/ /\ call.pc = "idle"
       /\ \E fi \in FreeFi, path \in Paths, answer \in BOOLEAN,
             outcome \in InitOutcomes :
            /\ EnterInputs(answer, outcome)
            /\ LET s == Enter("opendir", fi, path, 0, answer, outcome)
               IN  Apply(IF Entered(s) THEN [s EXCEPT !.call.pc = "opendir"] ELSE s)
    \/ /\ call.pc = "opendir"
       /\ \E r2 \in RemoteR2, nomem \in BOOLEAN :
            /\ nomem => r2 = 0 /\ Leaked(St) = {}
            /\ Apply(OpendirLoop(StepStart(St), r2, nomem))

smb2fs_releasedir ==
    /\ call.pc = "idle"
    /\ \E fi \in UsedDirs, answer \in BOOLEAN, outcome \in InitOutcomes :
         /\ EnterInputs(answer, outcome)
         /\ LET s == Enter("releasedir", fi, files[fi].path, 0, answer, outcome)
            IN  Apply(IF Entered(s) THEN ReleaseBody(s)
                      ELSE [s EXCEPT !.files[fi] = NoFile])

smb2fs_readdir ==
    /\ call.pc = "idle"
    /\ \E fi \in UsedDirs, answer \in BOOLEAN, outcome \in InitOutcomes :
         /\ EnterInputs(answer, outcome)
         /\ LET s == Enter("readdir", fi, files[fi].path, 0, answer, outcome)
            IN  Apply(IF Entered(s) THEN ReaddirBody(s) ELSE s)

\* The open loop also runs for the re-open of read, write and ftruncate.
smb2fs_open ==
    \/ /\ call.pc = "idle"
       /\ \E fi \in FreeFi, path \in Paths, answer \in BOOLEAN,
             outcome \in InitOutcomes :
            /\ EnterInputs(answer, outcome)
            /\ LET s == Enter("open", fi, path, 0, answer, outcome)
               IN  Apply(IF Entered(s) THEN EnterOpen(s, "") ELSE s)
    \/ /\ call.pc = "open"
       /\ \E r2 \in RemoteR2, nomem \in BOOLEAN :
            /\ nomem => r2 = 0 /\ Leaked(St) = {}
            /\ Apply(OpenLoop(StepStart(St), r2, nomem))

smb2fs_create ==
    \/ /\ call.pc = "idle"
       /\ \E fi \in FreeFi, path \in Paths, answer \in BOOLEAN,
             outcome \in InitOutcomes :
            /\ EnterInputs(answer, outcome)
            /\ LET s == Enter("create", fi, path, 0, answer, outcome)
               IN  Apply(IF ~Entered(s) THEN s
                         ELSE IF s.fsd.rdonly THEN Return(s, -EROFS)
                         ELSE [s EXCEPT !.call.pc = "create"])
    \/ /\ call.pc = "create"
       /\ \E r2 \in RemoteR2, nomem \in BOOLEAN :
            /\ nomem => r2 = 0 /\ Leaked(St) = {}
            /\ Apply(CreateLoop(StepStart(St), r2, nomem))

smb2fs_release ==
    /\ call.pc = "idle"
    /\ \E fi \in UsedFiles, answer \in BOOLEAN, outcome \in InitOutcomes :
         /\ EnterInputs(answer, outcome)
         /\ LET s == Enter("release", fi, files[fi].path, 0, answer, outcome)
            IN  Apply(IF Entered(s) THEN ReleaseBody(s)
                      ELSE [s EXCEPT !.files[fi] = NoFile])

smb2fs_read ==
    \/ /\ call.pc = "idle"
       /\ \E fi \in UsedFiles, size \in env.sizes, answer \in BOOLEAN,
             outcome \in InitOutcomes :
            /\ EnterInputs(answer, outcome)
            /\ Apply(StreamBody(Enter("read", fi, files[fi].path, size, answer, outcome)))
    \/ /\ call.pc = "io" /\ call.op = "read"
       /\ \E rc \in {0, TRANSPORT_FAULT, -EACCES, ReadCount(St)}, dt \in env.ticks :
            Apply(ReadPass(StepStart(St), rc, dt))

smb2fs_write ==
    \/ /\ call.pc = "idle"
       /\ \E fi \in UsedFiles, size \in env.sizes, answer \in BOOLEAN,
             outcome \in InitOutcomes :
            /\ EnterInputs(answer, outcome)
            /\ Apply(StreamBody(Enter("write", fi, files[fi].path, size, answer, outcome)))
    \/ /\ call.pc = "io" /\ call.op = "write"
       /\ \E rc \in {0, TRANSPORT_FAULT, -EACCES, WriteCount(St)}, dt \in env.ticks :
            Apply(WritePass(StepStart(St), rc, dt))

smb2fs_ftruncate ==
    \/ /\ call.pc = "idle"
       /\ \E fi \in UsedFiles, answer \in BOOLEAN, outcome \in InitOutcomes :
            /\ EnterInputs(answer, outcome)
            /\ Apply(StreamBody(Enter("ftruncate", fi, files[fi].path, 0, answer,
                                      outcome)))
    \/ /\ call.pc = "ftrunc"
       /\ \E rc \in RemoteRc : Apply(FtruncateLoop(StepStart(St), rc))

(***************************************************************************)
(* The specification.                                                      *)
(***************************************************************************)
\* needpw: neither the URL nor the arguments hold a password, and
\* NOPASSWORDREQ is not given.
MountDataOf(urlpaths, negotiated, needpw) ==
    [readonly : BOOLEAN, reconnect_req : BOOLEAN, no_handles_rcv : BOOLEAN,
     urlpath : urlpaths, max_read : negotiated, max_write : negotiated,
     needpw : needpw]

MountData == MountDataOf(UrlPaths, NegotiatedSizes, {FALSE})

\* The surroundings of a run that asks for the sizes and mounts the URLs of
\* the main specification, with calls that take no time.
Surroundings(cap, down, outcomes) ==
    [cap |-> cap, down |-> down, outcomes |-> outcomes, sizes |-> ReqSizes,
     negotiated |-> NegotiatedSizes, urlpaths |-> UrlPaths, ticks |-> {0},
     needpw |-> {FALSE}, statics |-> FALSE]

Start(surroundings, slots) ==
    /\ md \in MountDataOf(surroundings.urlpaths, surroundings.negotiated,
                          surroundings.needpw)
    /\ fsd = NULLFSD
    /\ phr_incarnation = 1
    /\ cfg_reconnect_req = FALSE
    /\ cfg_handles_rcv = TRUE
    /\ registries = {}
    /\ openRes = {}
    /\ files = [i \in 1..slots |-> NoFile]
    /\ call = NoCall
    /\ log = NoLog
    /\ mgr = "Disconnected"
    /\ env = surroundings

Init == Start(Surroundings(MaxIncarnation, {}, InitOutcomes \ {"refused"}), 1)

Next ==
    \/ smb2fs_mount
    \/ smb2fs_unmount
    \/ reconnect_loop
    \/ smb2fs_statfs
    \/ smb2fs_getattr
    \/ smb2fs_fgetattr
    \/ smb2fs_mkdir
    \/ smb2fs_truncate
    \/ smb2fs_readlink
    \/ smb2fs_rmdir
    \/ smb2fs_unlink
    \/ smb2fs_rename
    \/ smb2fs_utimens
    \/ smb2fs_opendir
    \/ smb2fs_releasedir
    \/ smb2fs_readdir
    \/ smb2fs_open
    \/ smb2fs_create
    \/ smb2fs_release
    \/ smb2fs_read
    \/ smb2fs_write
    \/ smb2fs_ftruncate

Spec == Init /\ [][Next]_vars

(***************************************************************************)
(* SpecRegistry: the operations that allocate, resolve and release         *)
(* handles, with NumFi files held by the host.                             *)
(***************************************************************************)
InitRegistry ==
    /\ Start(Surroundings(MaxIncarnation, {}, {"fail", "ok"}), NumFi)
    /\ ~md.readonly /\ ~md.no_handles_rcv

NextRegistry ==
    \/ smb2fs_mount
    \/ reconnect_loop
    \/ smb2fs_open
    \/ smb2fs_release

SpecRegistry == InitRegistry /\ [][NextRegistry]_vars

(***************************************************************************)
(* SpecWrap: a run in which, after the mount, the server cannot be reached *)
(* until the incarnation counter has passed the width of the incarnation   *)
(* field of a handle.                                                      *)
(***************************************************************************)
InitWrap ==
    /\ Start(Surroundings(WrapIncarnation, 2..(2 ^ INCARNATION_BITS),
                           {"fail", "ok"}), NumFi)
    /\ md.reconnect_req /\ ~md.readonly /\ ~md.no_handles_rcv

NextWrap ==
    \/ smb2fs_mount
    \/ reconnect_loop
    \/ smb2fs_open

SpecWrap == InitWrap /\ [][NextWrap]_vars

(***************************************************************************)
(* SpecStale: the operations that look a handle up and have no handle      *)
(* recovery, on a mount with reconnection and handle recovery enabled.     *)
(* The process starts unmounted, or is followed from the point where the   *)
(* session of the mount, which had a file or a directory open, was torn    *)
(* down by a fault and no establishment has succeeded since, the counter   *)
(* standing one incarnation field's worth of attempts later.               *)
(***************************************************************************)
\* What open and opendir left in the fuse_file_info in the first session.
StaleEntry(dir) ==
    [used |-> TRUE, fh |-> MakeHandle(1, 0), path |-> "f", dir |-> dir,
     issuer |-> 1, ref |-> [ctx |-> 1, n |-> 1, path |-> <<"sub", "f">>]]

AfterWrap ==
    /\ md \in MountData
    /\ fsd = NULLFSD
    /\ phr_incarnation = 2 ^ INCARNATION_BITS + 1
    /\ cfg_reconnect_req = TRUE
    /\ cfg_handles_rcv = TRUE
    /\ registries = {1}
    /\ openRes = {}
    /\ \E dir \in BOOLEAN : files = <<StaleEntry(dir), NoFile>>
    /\ call = [NoCall EXCEPT !.pc = "idle"]
    /\ log = NoLog
    /\ mgr = "PermanentlyFailed"
    /\ env = Surroundings(WrapIncarnation, {}, {"fail", "ok"})

InitStale ==
    /\ \/ Start(Surroundings(MaxIncarnation, {}, {"fail", "ok"}), 2)
       \/ AfterWrap
    /\ md.reconnect_req /\ ~md.readonly /\ ~md.no_handles_rcv

NextStale ==
    \/ smb2fs_mount
    \/ reconnect_loop
    \/ smb2fs_open
    \/ smb2fs_opendir
    \/ smb2fs_fgetattr
    \/ smb2fs_readdir
    \/ smb2fs_release
    \/ smb2fs_releasedir

SpecStale == InitStale /\ [][NextStale]_vars

(***************************************************************************)
(* SpecTransfer: long reads and writes of a file, with a server that       *)
(* negotiates sizes below, at and above the initial chunk, remote calls    *)
(* that take time, and faults from which the session is re-established.    *)
(***************************************************************************)
\* The session is established at the mount and once more.
TransferIncarnation == 3
TransferSizes == {1000000}
TransferNegotiated == {32768, 65536, 131072}
Ticks == {0, 10}

InitTransfer ==
    /\ Start([cap |-> TransferIncarnation, down |-> {}, outcomes |-> {"ok"},
              sizes |-> TransferSizes, negotiated |-> TransferNegotiated,
              urlpaths |-> UrlPaths, ticks |-> Ticks, needpw |-> {FALSE},
              statics |-> FALSE], 1)
    /\ md.reconnect_req /\ ~md.readonly /\ ~md.no_handles_rcv
    /\ md.max_read = md.max_write

NextTransfer ==
    \/ smb2fs_mount
    \/ reconnect_loop
    \/ smb2fs_open
    \/ smb2fs_read
    \/ smb2fs_write

SpecTransfer == InitTransfer /\ [][NextTransfer]_vars

(***************************************************************************)
(* SpecCalls: reads and writes one after the other on one file, the static *)
(* counters and the echo time followed from call to call.  SpecCallsFair   *)
(* adds that a write that is in its transfer loop goes on with it.         *)
(***************************************************************************)
CallSizes == {200000}
CallNegotiated == {32768, 131072}

InitCalls ==
    /\ Start([cap |-> TransferIncarnation, down |-> {}, outcomes |-> {"ok"},
              sizes |-> CallSizes, negotiated |-> CallNegotiated,
              urlpaths |-> UrlPaths, ticks |-> Ticks, needpw |-> {FALSE},
              statics |-> TRUE], 1)
    /\ md.reconnect_req /\ ~md.readonly /\ ~md.no_handles_rcv
    /\ md.max_read = md.max_write

NextCalls ==
    \/ smb2fs_mount
    \/ reconnect_loop
    \/ smb2fs_open
    \/ smb2fs_read
    \/ smb2fs_write

SpecCalls == InitCalls /\ [][NextCalls]_vars

\* The next pass of the while (size > 0) loop of smb2fs_write.
WriteLoop == call.pc = "io" /\ call.op = "write" /\ smb2fs_write

SpecCallsFair == InitCalls /\ [][NextCalls]_vars /\ WF_vars(WriteLoop)

(***************************************************************************)
(* SpecSubtree: mounts with every URL path of up to MaxSegments segments,  *)
(* each a name, an empty segment, "." or "..".                             *)
(***************************************************************************)
MaxSegments == 2
Segments == {"", ".", "..", "a"}
SegmentPaths == UNION {[1..n -> Segments] : n \in 0..MaxSegments}

InitSubtree ==
    Start([cap |-> MaxIncarnation, down |-> {}, outcomes |-> {"fail", "ok"},
           sizes |-> ReqSizes, negotiated |-> NegotiatedSizes,
           urlpaths |-> SegmentPaths, ticks |-> {0}, needpw |-> {FALSE}, statics |-> FALSE], 1)

NextSubtree ==
    \/ smb2fs_mount
    \/ smb2fs_unmount

SpecSubtree == InitSubtree /\ [][NextSubtree]_vars

(***************************************************************************)
(* SpecPrompt: mounts that have no password to go by, with faults and      *)
(* re-establishments that the server or the user may refuse.               *)
(***************************************************************************)
InitPrompt ==
    Start([cap |-> MaxIncarnation, down |-> {},
           outcomes |-> {"fail", "refused", "ok"}, sizes |-> ReqSizes,
           negotiated |-> NegotiatedSizes, urlpaths |-> UrlPaths, ticks |-> {0},
           needpw |-> BOOLEAN, statics |-> FALSE], 1)

NextPrompt ==
    \/ smb2fs_mount
    \/ reconnect_loop
    \/ smb2fs_statfs
    \/ smb2fs_getattr

SpecPrompt == InitPrompt /\ [][NextPrompt]_vars

(***************************************************************************)
(* The registry by itself: AllocateHandleForPointer and RemoveHandle as    *)
(* any caller may invoke them on the registry of a session, in any order   *)
(* and with any handle, the log keeping the call, its handle and pointer.  *)
(***************************************************************************)
\* The session of incarnation whose registry is phr.
TableSession(phr) ==
    [smb2 |-> phr.incarnation, phr |-> phr, rdonly |-> FALSE, connected |-> TRUE,
     rootdir |-> <<>>]

\* A state in which the session holds one of the registries phrs.
StartTable(phrs, surroundings) ==
    /\ md \in MountData
    /\ ~md.readonly /\ ~md.reconnect_req /\ ~md.no_handles_rcv
    /\ \E phr \in phrs :
         /\ fsd = TableSession(phr)
         /\ phr_incarnation = phr.incarnation + 1
         /\ registries = {phr.incarnation}
    /\ cfg_reconnect_req = FALSE
    /\ cfg_handles_rcv = TRUE
    /\ openRes = {}
    /\ files = [i \in 1..1 |-> NoFile]
    /\ call = [NoCall EXCEPT !.pc = "table"]
    /\ log = NoLog
    /\ mgr = "Connected"
    /\ env = surroundings

\* The handles a caller passes to RemoveHandle: 0, and those of the first
\* slots of this registry and of the one before it.
TableHandles ==
    {0} \cup {MakeHandle(incarnation, index) :
                incarnation \in {fsd.phr.incarnation - 1, fsd.phr.incarnation},
                index \in 0..(env.slots - 1)}

Allocate ==
    /\ call.pc = "table"
    /\ fsd.phr.freeHead = <<>> =>
          fsd.phr.size < env.slots \/ fsd.phr.size + 1 > MAX_INDEX
    /\ \E ptr \in env.ptrs, nomem \in env.nomem :
         /\ nomem => fsd.phr.freeHead = <<>> /\ fsd.phr.size = fsd.phr.capacity
         /\ LET a == AllocateHandleForPointer(fsd.phr, ptr, nomem)
            IN  Apply([StepStart(St) EXCEPT
                         !.fsd.phr = a.registry,
                         !.log.api = "allocate",
                         !.log.handle = a.handle,
                         !.log.ptr = ptr,
                         !.log.freed = IF @ = a.handle THEN 0 ELSE @])

Release ==
    /\ call.pc = "table"
    /\ \E handle \in TableHandles :
         LET ptr == HandleToPointer(fsd.phr, handle)
         IN  Apply([StepStart(St) EXCEPT
                      !.fsd.phr = RemoveHandle(fsd.phr, handle),
                      !.log.api = "release",
                      !.log.handle = handle,
                      !.log.ptr = ptr,
                      !.log.freed = IF ptr # NULL THEN handle ELSE @])

(***************************************************************************)
(* SpecTable: allocations and releases in every order on a registry of up  *)
(* to TableSlots slots, of an incarnation below, at and above the width of *)
(* the incarnation field.                                                  *)
(***************************************************************************)
TableSlots == 3
TableIncarnations == {1, 2 ^ INCARNATION_BITS - 1, 2 ^ INCARNATION_BITS,
                      2 ^ INCARNATION_BITS + 1}
TablePointers == {[ctx |-> 1, n |-> n, path |-> <<"f">>] : n \in 1..2}

InitTable ==
    StartTable({AllocateNewRegistry(incarnation) : incarnation \in TableIncarnations},
               [slots |-> TableSlots, ptrs |-> TablePointers, nomem |-> BOOLEAN])

NextTable ==
    \/ Allocate
    \/ Release

SpecTable == InitTable /\ [][NextTable]_vars

(***************************************************************************)
(* SpecGrow: allocations with no release between them and with memory to   *)
(* be had, from an empty registry up to MaxAllocations slots, and on a     *)
(* registry whose slots reach the ceiling.                                 *)
(***************************************************************************)
MaxAllocations == 1025

GrowPointers == {[ctx |-> 1, n |-> 1, path |-> <<"f">>]}

\* The registry after MAX_INDEX allocations of ptr with no release.
CeilingRegistry(ptr) ==
    [pointers |-> [i \in 1..MAX_INDEX |-> ptr],
     size |-> MAX_INDEX,
     capacity |-> ((MAX_INDEX + GROWSIZE - 1) \div GROWSIZE) * GROWSIZE,
     incarnation |-> 1, freeHead |-> <<>>]

InitGrow ==
    StartTable({AllocateNewRegistry(1)}
                 \cup {CeilingRegistry(ptr) : ptr \in GrowPointers},
               [slots |-> MaxAllocations, ptrs |-> GrowPointers, nomem |-> {FALSE}])

NextGrow == Allocate

SpecGrow == InitGrow /\ [][NextGrow]_vars

(***************************************************************************)
(* Properties of the handle registry.                                      *)
(***************************************************************************)
\* Every encoding of an incarnation and an index in the range of the run.
EncodedHandles ==
    {MakeHandle(incarnation, index) :
        incarnation \in 0..(MaxIncarnation + 1), index \in 0..NumFi}

\* The handles a registry of this run can be asked to resolve: those the
\* host holds, 0, and the encoded ones.
Candidates == {files[i].fh : i \in DOMAIN files} \cup {0} \cup EncodedHandles

\* The candidates that resolve against the current registry.
Resolving == {h \in Candidates : HandleToPointer(fsd.phr, h) # NULL}

\* The files whose handle the current registry issued and has not released.
Live == IF fsd = NULLFSD THEN {}
        ELSE {i \in UsedFi : files[i].issuer = fsd.phr.incarnation}

\* The files whose handle was issued by the registry of a session that a
\* fault has torn down since.
Stale == IF fsd = NULLFSD THEN {}
         ELSE {i \in UsedFi : files[i].issuer < fsd.phr.incarnation}

\* C1: every non-zero handle AllocateHandleForPointer returned resolves to
\* the pointer it was allocated for, at every point until it is released or
\* its registry is gone; handle 0 never resolves.
C1_LiveHandleResolves ==
    fsd # NULLFSD =>
        /\ HandleToPointer(fsd.phr, 0) = NULL
        /\ \A i \in Live :
              /\ files[i].fh # 0
              /\ HandleToPointer(fsd.phr, files[i].fh) = files[i].ref

\* Two handles of a re-established session are live.
C1_Witness ==
    /\ fsd # NULLFSD
    /\ fsd.phr.incarnation > 1
    /\ Cardinality(Live) = 2
    /\ \A i \in Live : HandleToPointer(fsd.phr, files[i].fh) = files[i].ref

\* The sessions before the current one: handle_connection_fault leaves their
\* registries allocated.
TornDown == registries \ (IF fsd = NULLFSD THEN {} ELSE {fsd.phr.incarnation})

\* The session the current one followed.
Predecessor == CHOOSE k \in TornDown : \A j \in TornDown : j <= k

\* The slot a handle names is occupied in the current registry.
Occupied(handle) ==
    /\ HandleIndex(handle) < fsd.phr.size
    /\ fsd.phr.pointers[HandleIndex(handle) + 1] # NULL

\* C2 as stated: a handle of the session a fault tore down never resolves
\* against the registry of the session that follows it.
C2_SuccessorRejects ==
    \A i \in Stale :
        (TornDown # {} /\ files[i].issuer = Predecessor)
            => HandleToPointer(fsd.phr, files[i].fh) = NULL

\* C2, amended: a handle of the session a fault tore down never resolves
\* against the registry of the session that follows it, when fewer than
\* 2^INCARNATION_BITS registries were created from the one to the other.
C2_SuccessorRejectsBeforeWrap ==
    \A i \in Stale :
        (/\ TornDown # {}
         /\ files[i].issuer = Predecessor
         /\ fsd.phr.incarnation - files[i].issuer < 2 ^ INCARNATION_BITS)
            => HandleToPointer(fsd.phr, files[i].fh) = NULL

\* A handle of the session torn down names a slot that is occupied in the
\* registry of the session that followed it.
C2_Witness ==
    \E i \in Stale :
        /\ TornDown # {}
        /\ files[i].issuer = Predecessor
        /\ fsd.phr.incarnation - files[i].issuer < 2 ^ INCARNATION_BITS
        /\ Occupied(files[i].fh)

\* C3 as stated: a handle of a registry that is gone resolves against no
\* later registry, however many establishments lie between the two.
C3_LaterRejects ==
    \A i \in Stale : HandleToPointer(fsd.phr, files[i].fh) = NULL

\* C3, amended: a handle of a registry that is gone resolves against no
\* later registry whose incarnation differs from the issuer's by other than
\* a multiple of 2^INCARNATION_BITS.
C3_LaterRejectsUnlessCongruent ==
    \A i \in Stale :
        (fsd.phr.incarnation - files[i].issuer) % (2 ^ INCARNATION_BITS) # 0
            => HandleToPointer(fsd.phr, files[i].fh) = NULL

\* A handle issued more than 2^INCARNATION_BITS establishments ago, with a
\* session in between, names an occupied slot of the current registry.
C3_Witness ==
    \E i \in Stale :
        /\ fsd.phr.incarnation - files[i].issuer > 2 ^ INCARNATION_BITS
        /\ files[i].issuer # Predecessor
        /\ Occupied(files[i].fh)

\* C4: no two distinct handles that resolve decode to the same slot index.
C4_ResolvingHandlesDistinctSlots ==
    fsd # NULLFSD =>
        LET resolving == Resolving
        IN  \A g, h \in resolving : HandleIndex(g) = HandleIndex(h) => g = h

\* Two handles of a re-established session resolve, and no other handle.
C4_Witness ==
    /\ fsd # NULLFSD
    /\ fsd.phr.incarnation > 1
    /\ Cardinality(Resolving) = 2
(***************************************************************************)
(* Properties of the retry loop and of the connection fault path.          *)
(***************************************************************************)
\* C5: when a remote call ends in a protocol outcome, the operation returns
\* in that step, with the code of the outcome, and issues no further call.
C5_ProtocolOutcomeVerbatim ==
    log.cls = "proto" => (log.returned /\ log.ret = log.code)

\* C6: when a remote call ends in a protocol outcome the session object, with
\* its connected flag and its registry, is what it was before the call, and
\* neither handle_connection_fault nor the reconnect prompt is entered.
C6_ProtocolOutcomeKeepsSession ==
    log.cls = "proto" =>
        (~log.handler /\ fsd = log.before /\ call.pc # "reconnect")

\* C7: an operation whose last remote call ended in a transport fault returns
\* -ENODEV: the fault's own code is never what the caller sees.
C7_FaultNeverReported ==
    (log.returned /\ log.last = "fault") => log.ret = -ENODEV

\* C8: with reconnection on, an operation that met a transport fault returns
\* only after a remote call that succeeded or ended in a protocol outcome,
\* or, with -ENODEV, after request_reconnect declined.
C8_ReturnsOnlyWhenSettled ==
    (cfg_reconnect_req /\ log.returned /\ log.faults) =>
        \/ log.last \in {"ok", "proto"}
        \/ (log.declined /\ log.ret = -ENODEV)

\* C9: once request_reconnect has declined, no step establishes a session
\* and every operation that returns fails.
C9_DeclineIsPermanent ==
    [][mgr = "PermanentlyFailed" =>
          (fsd' = NULLFSD /\ (log'.returned => log'.ret < 0))]_vars

\* C10: with reconnection off, the step in which a remote call faults
\* returns -ENODEV, without a session establishment, a prompt or a change of
\* the write chunk size; an operation entered while there is no session makes
\* one smb2fs_init, no prompt, and returns -ENODEV when that fails.
C10_FaultWithoutReconnection ==
    [][/\ (~cfg_reconnect_req' /\ log'.cls = "fault") =>
             /\ log'.returned /\ log'.ret = -ENODEV
             /\ fsd' = NULLFSD /\ phr_incarnation' = phr_incarnation
             /\ log'.prompts = 0
             /\ call'.chunk_size = call.chunk_size
       /\ (~cfg_reconnect_req' /\ fsd = NULLFSD /\ call.pc = "idle"
             /\ call'.op # "destroy") =>
             /\ log'.prompts = 0 /\ log'.inits = 1
             /\ (fsd' = NULLFSD => (log'.returned /\ log'.ret = -ENODEV))]_vars
(***************************************************************************)
(* Properties of handle recovery.                                          *)
(***************************************************************************)
\* C11: a read that met a transport fault, was reconnected and re-opened and
\* then ran to its end returns the number of bytes it delivered to the
\* caller, which is at most the size asked for.
C11_RecoveredReadReturnsBytes ==
    (log.op = "read" /\ log.returned /\ log.resumed /\ log.last = "ok") =>
        (log.ret = log.delivered /\ log.ret <= log.req)

\* C12: after the re-open that follows a fault inside read, write or
\* ftruncate, the resource the next remote call is given is the one the
\* handle in fi->fh resolves to in the registry of the new session.
C12_RecoveredCallsUseNewHandle ==
    (call.pc = "io" /\ log.resumed) =>
        call.smb2fh = HandleToPointer(fsd.phr, files[call.fi].fh)
\* C13: with handle recovery off, a read, write or ftruncate whose handle was
\* issued before a fault, and that runs on a session established since,
\* returns -EIO.
C13_StaleStreamFailsWithEIO ==
    (/\ log.op \in {"read", "write", "ftruncate"}
     /\ log.returned
     /\ ~cfg_handles_rcv
     /\ call.fi \in Stale) => log.ret = -EIO
(***************************************************************************)
(* Properties of the teardown.                                             *)
(***************************************************************************)
\* C14: no registry but that of the current session is allocated, no handle
\* issued before a teardown resolves, and the session established after a
\* fault has the read-only flag and the root directory of the one torn down.
C14_TeardownDestroysRegistry ==
    /\ TornDown = {}
    /\ \A i \in Stale : HandleToPointer(fsd.phr, files[i].fh) = NULL
    /\ (log.faults /\ fsd # NULLFSD) =>
           (fsd.rdonly = log.torn.rdonly /\ fsd.rootdir = log.torn.rootdir)

(***************************************************************************)
(* Properties of the transfer loop.                                        *)
(***************************************************************************)
\* C15: in the transfer loop of a read or a write, the step of a successful
\* unit drains exactly when the units since the last drain, this one
\* included, reach 4 or the bytes since the last drain reach 262144, and
\* both counters are zero after a drain; in a read of 1,000,000 bytes in
\* chunks of 65536 that meets no fault the drains are those of the 4th,
\* 8th, 12th and 16th chunk, and one final drain follows the loop.
C15_DrainAtThreshold ==
    /\ [][log'.unit =>
            /\ log'.drained <=>
                 \/ call.service_counter + 1 >= 4
                 \/ call.bytes_since_service + log'.code >= 262144
            /\ log'.drained =>
                 call'.service_counter = 0 /\ call'.bytes_since_service = 0]_vars
    /\ [](log.op = "read" /\ log.req = 1000000 /\ md.max_read = 65536
            /\ log.looped /\ ~log.faults =>
            /\ log.drains = log.units \div 4
            /\ log.unit => (log.drained <=> log.units % 4 = 0)
            /\ log.returned /\ log.ret = log.req =>
                 log.units = 16 /\ log.drains = 4 /\ log.final = 1)

\* The read of 1,000,000 bytes in chunks of 65536 has returned all of them.
C15_Witness ==
    /\ log.op = "read" /\ log.returned /\ log.ret = 1000000
    /\ md.max_read = 65536 /\ ~log.faults
    /\ log.drained /\ log.drains = 4 /\ log.final = 1

\* C16: a read or a write that entered its transfer loop and returned has
\* performed exactly one final drain, whatever ended the loop.
C16_OneFinalDrain ==
    (log.op \in {"read", "write"} /\ log.looped /\ log.returned) => log.final = 1

\* C17: a successful unit of the transfer loop at which 20 seconds or more
\* have passed since the last keep-alive, or since the call started, is
\* followed by a keep-alive and the reset of the timer, whether or not the
\* unit reached a drain threshold.
C17_KeepAliveWhenDue ==
    (log.unit /\ log.late) => (log.echoed /\ call.elapsed = 0)

\* C18: within one write the chunk size starts at the smaller of 65536 and
\* the negotiated maximum, never exceeds the maximum, never decreases (a
\* failed write leaves it as it is), and is doubled, up to the maximum and
\* with the success counter reset, only by the 4th of 4 successful writes
\* in a row with no failed write between them; with a maximum of 131072 or
\* more it is 131072 after the first 4 successes in a row.
C18_ChunkGrowth ==
    /\ [][call'.op = "write" /\ call'.pc = "io" =>
            IF call.pc = "io"
            THEN /\ call'.chunk_size >= call.chunk_size
                 /\ log'.failed => call'.chunk_size = call.chunk_size
                 /\ call'.chunk_size # call.chunk_size => log'.grew
                 /\ log'.grew =>
                      /\ log'.streak >= 4
                      /\ call'.success_count = 0
                      /\ call'.chunk_size = Min(2 * call.chunk_size, md.max_write)
            ELSE log'.looped \/ call'.chunk_size = Min(65536, md.max_write)]_vars
    /\ [](call.op = "write" /\ call.pc = "io" =>
            /\ call.chunk_size <= md.max_write
            /\ (md.max_write >= 131072 /\ log.units = 4 /\ log.streak = 4) =>
                 call.chunk_size = 131072)

(***************************************************************************)
(* Properties of rmdir.                                                    *)
(***************************************************************************)
\* C19: an rmdir whose listing shows a name other than "." and ".." returns
\* the not-empty error without having issued the remote rmdir, and has
\* closed the listing it opened by then: no resource is open that was not
\* open before the listing.
C19_NotEmptyWithoutDeletion ==
    /\ [](log.op = "rmdir" /\ log.notempty =>
            /\ log.returned /\ log.ret = -ENOTEMPTY
            /\ "remote" \notin log.remote
            /\ log.listing = "closed")
    /\ [][log'.op = "rmdir" /\ log'.notempty => openRes' = openRes]_vars

\* An rmdir found the directory not empty.
C19_Witness ==
    /\ log.op = "rmdir" /\ log.notempty /\ log.returned /\ log.ret = -ENOTEMPTY
    /\ log.listing = "closed" /\ log.remote = {"rmdir"}

(***************************************************************************)
(* Properties of the subtree restriction.                                  *)
(***************************************************************************)
\* C20: the prefix the normalizer yields for a URL path has no "." and no
\* ".." segment, and a ".." met at the root leaves the result at the root:
\* the prefix is the one reached by dropping such segments.
C20_SubtreeStaysBelowRoot ==
    fsd # NULLFSD =>
        /\ \A i \in 1..Len(fsd.rootdir) : fsd.rootdir[i] \notin {".", ".."}
        /\ (\A i \in 1..Len(md.urlpath) : md.urlpath[i] \in {"", ".", ".."}) =>
               fsd.rootdir = <<>>

(***************************************************************************)
(* Properties of allocation and release in the registry.                   *)
(***************************************************************************)
\* C21: an allocation that finds the free list non-empty returns the handle
\* of the index released last among the free ones and changes neither size
\* nor capacity; size and capacity change in no step that finds the free
\* list non-empty; capacity never decreases and changes by 1024 only.
C21_FreedIndicesReused ==
    [][/\ (log'.api = "allocate" /\ fsd.phr.freeHead # <<>>) =>
            /\ log'.handle # 0
            /\ HandleIndex(log'.handle) = Head(fsd.phr.freeHead)
            /\ log.freed # 0 => log'.handle = log.freed
            /\ fsd'.phr.pointers[HandleIndex(log'.handle) + 1] = log'.ptr
       /\ (fsd'.phr.size # fsd.phr.size \/ fsd'.phr.capacity # fsd.phr.capacity) =>
            fsd.phr.freeHead = <<>>
       /\ fsd'.phr.capacity \in {fsd.phr.capacity, fsd.phr.capacity + 1024}]_vars

\* An allocation took a free index of a full table and left another free.
C21_Witness ==
    /\ log.api = "allocate" /\ log.handle # 0
    /\ fsd.phr.freeHead # <<>> /\ fsd.phr.size = TableSlots
    /\ fsd.phr.capacity = GROWSIZE

\* C22: with no release between them and memory to be had, every allocation
\* below the ceiling returns a handle and adds one slot, and capacity grows,
\* by exactly 1024, at the allocations that find the table full and at no
\* other, so that the 1025th allocation is the first to bring it to 2048;
\* an allocation that needs an index beyond MAX_INDEX returns 0 and leaves
\* the registry as it was.
C22_GrowthAndCeiling ==
    /\ [][log'.api = "allocate" =>
            IF fsd.phr.size + 1 > MAX_INDEX
            THEN log'.handle = 0 /\ fsd'.phr = fsd.phr
            ELSE /\ log'.handle # 0
                 /\ fsd'.phr.size = fsd.phr.size + 1
                 /\ fsd'.phr.capacity =
                      IF fsd.phr.size = fsd.phr.capacity
                      THEN fsd.phr.capacity + 1024 ELSE fsd.phr.capacity]_vars
    /\ [](/\ fsd.phr.size \in 1..1024 => fsd.phr.capacity = 1024
          /\ fsd.phr.size = 1025 => fsd.phr.capacity = 2048)

\* The 1025th allocation has returned its handle.
C22_Witness ==
    /\ log.api = "allocate" /\ log.handle = MakeHandle(fsd.phr.incarnation, 1024)
    /\ fsd.phr.size = 1025 /\ fsd.phr.capacity = 2048

\* C23: the release of a handle that resolves empties its slot, so that the
\* handle resolves no longer, and puts its index on the free list; the
\* release of a handle that does not resolve, as is one released before,
\* changes nothing; no index is on the free list twice, and each index on it
\* is an empty slot.
C23_ReleaseOnce ==
    /\ [][log'.api = "release" =>
            IF HandleToPointer(fsd.phr, log'.handle) # NULL
            THEN /\ HandleToPointer(fsd'.phr, log'.handle) = NULL
                 /\ fsd'.phr.pointers =
                      [fsd.phr.pointers EXCEPT ![HandleIndex(log'.handle) + 1] = NULL]
                 /\ fsd'.phr.freeHead = <<HandleIndex(log'.handle)>> \o fsd.phr.freeHead
            ELSE fsd'.phr = fsd.phr]_vars
    /\ [](LET free == fsd.phr.freeHead
          IN  /\ \A i, j \in 1..Len(free) : free[i] = free[j] => i = j
              /\ \A i \in 1..Len(free) :
                   free[i] < fsd.phr.size /\ fsd.phr.pointers[free[i] + 1] = NULL)

\* A handle released before, and not returned by an allocation since, is
\* released again.
C23_Witness ==
    /\ log.api = "release" /\ log.handle # 0 /\ log.handle = log.freed
    /\ log.ptr = NULL /\ Len(fsd.phr.freeHead) = 2

(***************************************************************************)
(* Properties of open, create, opendir, release and releasedir.            *)
(***************************************************************************)
\* C24: an open, create or opendir whose handle allocation fails returns
\* -ENOMEM in that step and leaves the session as it was, registry included,
\* with the process ready for the next request.
C24_ExhaustionKeepsSession ==
    [][(log'.exhausted /\ log'.op \in {"open", "create", "opendir"}) =>
          /\ log'.returned /\ log'.ret = -ENOMEM
          /\ call'.pc = "idle"
          /\ fsd # NULLFSD /\ fsd' = fsd
          /\ registries' = registries
          /\ mgr' = "Connected"]_vars

\* The handle allocation of an open has failed.
C24_Witness ==
    /\ log.exhausted /\ log.op = "open" /\ log.returned /\ log.ret = -ENOMEM
    /\ fsd # NULLFSD /\ files[call.fi].fh = 0

(***************************************************************************)
(* Properties of the prompts.                                              *)
(***************************************************************************)
\* C25: the reconnect confirmation is asked for only when reconnection is
\* enabled, and with reconnection disabled no request after the mount asks
\* for a password or for a confirmation, the requests that establish a
\* session by themselves included.
C25_NoPromptWithoutReconnection ==
    /\ log.prompts > 0 => cfg_reconnect_req
    /\ (log.op # "mount" /\ ~cfg_reconnect_req) => log.password = 0

\* C26: a handle that Allocate returns for a slot is a 32-bit value whose low
\* 22 bits are the slot's index plus one and whose high 10 bits are the
\* registry's incarnation modulo 2^10; it is not 0 whatever the incarnation
\* is, and it decodes to that index and that incarnation field.
C26_HandleEncoding ==
    [][log'.api = "allocate" =>
         LET h == log'.handle
             taken == {i \in 0..(fsd'.phr.size - 1) :
                          \/ i >= fsd.phr.size
                          \/ fsd'.phr.pointers[i + 1] # fsd.phr.pointers[i + 1]}
         IN  /\ fsd'.phr # fsd.phr => h # 0
             /\ h # 0 =>
                  /\ h \in (-(2 ^ 30) - 2 ^ 30)..((2 ^ 30 - 1) + 2 ^ 30)
                  /\ taken = {(h % (2 ^ 22)) - 1}
                  /\ (h \div (2 ^ 22)) % (2 ^ 10) = fsd.phr.incarnation % (2 ^ 10)
                  /\ taken = {HandleIndex(h)}
                  /\ HandleIncarnation(h) = fsd'.phr.incarnation % (2 ^ 10)
                  /\ HandleToPointer(fsd'.phr, h) = log'.ptr]_vars

\* An allocation in a registry whose incarnation is 2^10 returned the handle
\* of slot 1, and one in the registry of incarnation 2^10 - 1 a negative one.
C26_Witness ==
    /\ log.api = "allocate"
    /\ log.handle = 2
    /\ fsd.phr.incarnation = 2 ^ INCARNATION_BITS
    /\ HandleToPointer(fsd.phr, log.handle) = log.ptr

(***************************************************************************)
(* Properties of the incarnation counter.                                  *)
(***************************************************************************)
\* C27 as stated: the tags of the registries created increase strictly, and
\* every establishment attempt advances the counter.
C27_EveryAttemptAdvances ==
    /\ [](\A i, j \in 1..Len(log.tags) : i < j => log.tags[i] < log.tags[j])
    /\ [][log'.attempt # "none" => phr_incarnation' = phr_incarnation + 1]_vars

\* C27: the tags of the registries created increase strictly, the session's
\* registry carries the latest; an attempt that gets as far as creating the
\* registry advances the counter by one, whether it then succeeds or fails,
\* and an attempt that fails before that leaves the counter as it is.
C27_AttemptWithRegistryAdvances ==
    /\ [](/\ \A i, j \in 1..Len(log.tags) : i < j => log.tags[i] < log.tags[j]
          /\ \A i \in 1..Len(log.tags) : log.tags[i] < phr_incarnation
          /\ fsd # NULLFSD => fsd.phr.incarnation = log.tags[Len(log.tags)])
    /\ [][/\ log'.attempt = "registry" =>
               /\ phr_incarnation' = phr_incarnation + 1
               /\ log'.tags = Append(log.tags, phr_incarnation)
          /\ log'.attempt # "registry" =>
               /\ phr_incarnation' = phr_incarnation
               /\ log'.tags = log.tags]_vars

\* A second attempt created its registry and then failed.
C27_Witness ==
    /\ log.attempt = "registry"
    /\ fsd = NULLFSD
    /\ log.tags = <<1, 2>>
    /\ phr_incarnation = 3

\* C28: release and releasedir close the resource the handle resolves to
\* while the handle still resolves, and remove the handle after that; then
\* the handle resolves no more and fi->fh is 0.  With a handle that does not
\* resolve they return -EINVAL and issue no close: no remote call is made,
\* no resource is closed and the registry stays as it is.
C28_CloseBeforeRelease ==
    [][(log'.op \in {"release", "releasedir"} /\ log'.returned
          /\ log'.ret # -ENODEV) =>
         LET resolved == HandleToPointer(fsd'.phr, log'.handle)
         IN  /\ log'.ret \in {0, -EINVAL}
             /\ log'.ret = 0 <=> log'.ptr # NULL
             /\ log'.ret = 0 =>
                  /\ log'.order = <<<<"close", log'.ptr>>, <<"remove", log'.ptr>>>>
                  /\ log'.remote # {}
                  /\ log'.ptr \notin openRes'
                  /\ resolved = NULL
                  /\ log'.fh = 0
             /\ log'.ret = -EINVAL =>
                  /\ log'.order = <<>>
                  /\ log'.remote = {}
                  /\ openRes' = openRes
                  /\ log'.inits = 0 => fsd'.phr = fsd.phr]_vars

\* A release closed a file and removed its handle.
C28_Witness ==
    /\ log.op = "release" /\ log.returned /\ log.ret = 0
    /\ log.order = <<<<"close", log.ptr>>, <<"remove", log.ptr>>>>
    /\ log.handle # 0 /\ log.fh = 0
    /\ HandleToPointer(fsd.phr, log.handle) = NULL

\* C29: smb2fs_open asks for read-write first on a writable mount and for
\* read-only on a read-only one; it goes from read-write to read-only only
\* when the read-write open ended in a protocol outcome, and never back;
\* it returns -ENOENT only when the read-only open ended in a protocol
\* outcome; when it returns 0, fi->fh is not 0 and resolves to the resource
\* this open opened.
C29_ReadWriteThenReadOnly ==
    /\ []((call.op = "open" /\ call.pc = "open" /\ fsd # NULLFSD /\ fsd.rdonly)
            => call.flags = "O_RDONLY")
    /\ [][/\ (log'.op = "open" /\ call.pc = "idle" /\ call'.pc = "open") =>
                call'.flags = IF fsd'.rdonly THEN "O_RDONLY" ELSE "O_RDWR"
          /\ (call.op = "open" /\ call.pc = "open") =>
                /\ call'.flags # call.flags =>
                     /\ call.flags = "O_RDWR" /\ call'.flags = "O_RDONLY"
                     /\ log'.cls = "proto"
                     /\ call'.pc = "open"
                /\ (log'.returned /\ log'.ret = -ENOENT) =>
                     call.flags = "O_RDONLY" /\ log'.cls = "proto"
                /\ (log'.cls = "proto" /\ call.flags = "O_RDONLY") =>
                     log'.returned /\ log'.ret = -ENOENT
                /\ (log'.returned /\ log'.ret = 0) =>
                     LET f == files'[call.fi]
                     IN  /\ log'.cls = "ok"
                         /\ f.fh # 0
                         /\ HandleToPointer(fsd'.phr, f.fh) = f.ref
                         /\ f.ref \in openRes' \ openRes
                         /\ f.ref.path = FullPath(St, call.path)]_vars

\* An open on a writable mount succeeded read-only after the read-write open
\* was rejected.
C29_Witness ==
    /\ log.op = "open" /\ log.returned /\ log.ret = 0
    /\ call.flags = "O_RDONLY" /\ ~fsd.rdonly
    /\ log.afterProto
    /\ files[call.fi].fh # 0
    /\ HandleToPointer(fsd.phr, files[call.fi].fh) = files[call.fi].ref

C31_TransferStateFresh ==
    (call.op \in {"read", "write"} /\ call.pc = "io" /\ "io" \notin log.remote) =>
        /\ call.service_counter = 0
        /\ call.bytes_since_service = 0
        /\ call.elapsed = 0
        /\ call.result = 0
        /\ call.op = "write" =>
             /\ call.success_count = 0
             /\ call.chunk_size = Min(INITIAL_CHUNK, md.max_write)

\* A write is about to issue its first remote write, the requests before
\* having left the counters or the echo time other than 0.
C31_Witness ==
    /\ call.op = "write" /\ call.pc = "io" /\ "io" \notin log.remote
    /\ log.dirty
    /\ call.service_counter = 0 /\ call.bytes_since_service = 0
    /\ call.elapsed = 0 /\ call.success_count = 0
    /\ call.chunk_size = Min(INITIAL_CHUNK, md.max_write)

(***************************************************************************)
(* Properties of the read-only mount.                                      *)
(***************************************************************************)
\* The operations that test fsd->rdonly.
MutatingOps ==
    {"mkdir", "create", "write", "truncate", "ftruncate", "utimens", "unlink",
     "rmdir", "rename"}

\* C32: on a read-only mount a mutating request issues no remote call other
\* than an open; when it returns with a session in place it returns -EROFS,
\* and the session and its registry are what they were when the request
\* came in, or, when the request had to establish the session, what the
\* establishment made them.
C32_ReadOnlyRefuses ==
    [][(md.readonly /\ log'.op \in MutatingOps /\ log'.returned) =>
         /\ log'.remote \subseteq {"open"}
         /\ fsd' # NULLFSD =>
              /\ log'.ret = -EROFS
              /\ IF log'.enteredNull
                 THEN fsd'.phr = AllocateNewRegistry(fsd'.phr.incarnation)
                 ELSE fsd' = fsd /\ openRes' = openRes]_vars

(***************************************************************************)
(* Properties of the handle operations without handle recovery.            *)
(***************************************************************************)
\* C33 as stated: fgetattr, at every turn of its loop, and readdir, release
\* and releasedir, after their session block, return -EINVAL and issue no
\* remote call when the handle they are given was issued by the registry of
\* an earlier session.
C33_StaleHandleRejected ==
    [][/\ (/\ call.pc = "remote" /\ call.op = "fgetattr"
           /\ files[call.fi].issuer < fsd.phr.incarnation)
             => /\ log'.returned /\ log'.ret = -EINVAL
                /\ log'.cls = "none"
       /\ (/\ call.pc = "idle"
           /\ log'.op \in {"readdir", "release", "releasedir"}
           /\ fsd' # NULLFSD
           /\ files[call'.fi].issuer < fsd'.phr.incarnation)
             => /\ log'.returned /\ log'.ret = -EINVAL
                /\ log'.remote = {}
                /\ openRes' = openRes]_vars

\* C33, amended: the same, for a handle issued by the registry of an
\* earlier session whose incarnation differs from the current one's by other
\* than a multiple of 2^INCARNATION_BITS.
C33_StaleHandleRejectedUnlessCongruent ==
    [][/\ (/\ call.pc = "remote" /\ call.op = "fgetattr"
           /\ files[call.fi].issuer < fsd.phr.incarnation
           /\ (fsd.phr.incarnation - files[call.fi].issuer)
                  % (2 ^ INCARNATION_BITS) # 0)
             => /\ log'.returned /\ log'.ret = -EINVAL
                /\ log'.cls = "none"
       /\ (/\ call.pc = "idle"
           /\ log'.op \in {"readdir", "release", "releasedir"}
           /\ fsd' # NULLFSD
           /\ files[call'.fi].issuer < fsd'.phr.incarnation
           /\ (fsd'.phr.incarnation - files[call'.fi].issuer)
                  % (2 ^ INCARNATION_BITS) # 0)
             => /\ log'.returned /\ log'.ret = -EINVAL
                /\ log'.remote = {}
                /\ openRes' = openRes]_vars

\* fgetattr met a fault, the session was re-established, and the next turn
\* of the loop returned -EINVAL for the handle of the session torn down.
C33_Witness ==
    /\ log.op = "fgetattr" /\ log.returned /\ log.ret = -EINVAL
    /\ log.faults /\ log.inits > 0 /\ log.last = "fault"
    /\ fsd # NULLFSD
    /\ files[call.fi].issuer < fsd.phr.incarnation
    /\ cfg_reconnect_req /\ cfg_handles_rcv

(***************************************************************************)
(* Properties of the session an operation works with.                      *)
(***************************************************************************)
\* C34: while a request is under way with a session object in place, the
\* session is connected and its registry is allocated; and when the session
\* block or the fault handler ran smb2fs_init and went on with the session
\* it left, that session is connected.
C34_SessionConnected ==
    /\ []((call.pc \notin {"unmounted", "dead", "idle", "reconnect"}
             /\ fsd # NULLFSD)
            => fsd.connected /\ fsd.phr.incarnation \in registries)
    /\ [][(log'.attempt # "none" /\ log'.op # "mount" /\ fsd' # NULLFSD)
            => fsd'.connected]_vars

(***************************************************************************)
(* Properties of the resources open on the server.                         *)
(***************************************************************************)
\* C35: when open, create or opendir returns, the resource it opened in this
\* step, if it is still open, is what exactly one handle held by the host
\* resolves to in the session's registry.
C35_OpenedIsReferenced ==
    [][(log'.op \in {"open", "create", "opendir"} /\ log'.returned) =>
         \A r \in openRes' \ openRes :
            Cardinality({i \in DOMAIN files' :
                            /\ files'[i].used
                            /\ fsd' # NULLFSD
                            /\ HandleToPointer(fsd'.phr, files'[i].fh) = r}) = 1]_vars

\* C36: a write call that meets no transport fault leaves its transfer loop
\* after finitely many remote writes, whatever non-negative byte counts the
\* remote writes return, zero included.
C36_WriteTerminates ==
    (call.op = "write" /\ call.pc = "io" /\ ~log.faults) ~>
        (call.pc # "io" \/ log.faults)

====
